---- MODULE Spec2Model ----
(***************************************************************************)
(* Model of src/app.py: the /generate_video endpoint of VideoMerger.       *)
(* Strings are sequences of one-character strings so that lower(), split(),*)
(* strip(), replace() and endswith() are computed, not assumed.            *)
(***************************************************************************)
EXTENDS Integers, Sequences, FiniteSets, TLC

\* ---------------------------------------------------------------- bounds
NumRequests == 2
MaxTokens == 2

Requests == 1..NumRequests

\* ---------------------------------------------------------------- strings
None == <<"None">>

LowerChar(c) ==
    CASE c = "H" -> "h"
      [] c = "N" -> "n"
      [] c = "O" -> "o"
      [] c = "E" -> "e"
      [] c = "D" -> "d"
      [] OTHER -> c

Lower(s) == [k \in 1..Len(s) |-> LowerChar(s[k])]

IsSpace(c) == c = " "

RECURSIVE LStrip(_)
LStrip(s) == IF s # <<>> /\ IsSpace(Head(s)) THEN LStrip(Tail(s)) ELSE s

RECURSIVE RStrip(_)
RStrip(s) ==
    IF s # <<>> /\ IsSpace(s[Len(s)]) THEN RStrip(SubSeq(s, 1, Len(s) - 1)) ELSE s

Strip(s) == RStrip(LStrip(s))

\* str.split() without arguments: runs of whitespace separate, no empty items
RECURSIVE SplitFrom(_, _, _)
SplitFrom(s, cur, acc) ==
    IF s = <<>> THEN (IF cur = <<>> THEN acc ELSE Append(acc, cur))
    ELSE IF IsSpace(Head(s))
         THEN SplitFrom(Tail(s), <<>>, IF cur = <<>> THEN acc ELSE Append(acc, cur))
         ELSE SplitFrom(Tail(s), Append(cur, Head(s)), acc)

Split(s) == SplitFrom(s, <<>>, <<>>)

\* name.split("/")[-1]
RECURSIVE LastComponent(_, _)
LastComponent(s, cur) ==
    IF s = <<>> THEN cur
    ELSE IF Head(s) = "/" THEN LastComponent(Tail(s), <<>>)
         ELSE LastComponent(Tail(s), Append(cur, Head(s)))

Mp4 == <<".", "m", "p", "4">>

StartsWith(s, p) == Len(s) >= Len(p) /\ SubSeq(s, 1, Len(p)) = p

EndsWith(s, p) == Len(s) >= Len(p) /\ SubSeq(s, Len(s) - Len(p) + 1, Len(s)) = p

\* str.replace(p, ""): every non-overlapping occurrence, left to right
RECURSIVE RemoveAll(_, _)
RemoveAll(s, p) ==
    IF s = <<>> THEN <<>>
    ELSE IF StartsWith(s, p) THEN RemoveAll(SubSeq(s, Len(p) + 1, Len(s)), p)
         ELSE <<Head(s)>> \o RemoveAll(Tail(s), p)

Contains(seq, x) == \E k \in 1..Len(seq) : seq[k] = x


Truthy(s) == s # None /\ s # <<>>

RECURSIVE Join(_)
Join(ws) == IF Len(ws) = 0 THEN <<>>
            ELSE IF Len(ws) = 1 THEN ws[1]
            ELSE ws[1] \o <<" ">> \o Join(Tail(ws))

\* ---------------------------------------------------------------- inputs
\* request.args.get('sentence'): absent, empty, blank, or up to MaxTokens words
InputWords == { <<"H", "i">> }

BareSentences == { None, <<>>, <<" ">> }

Sentences ==
    BareSentences \cup
    { Join(ws) : ws \in UNION { [1..n -> InputWords] : n \in 1..MaxTokens } }

\* The requests served concurrently: every interleaving of their steps is
\* explored.  One of them carries any sentence; the others come without the
\* 'sentence' parameter, so they run the catalog hook and the first check of
\* the endpoint and race with the first on app.available_words, the only
\* state requests share.
WordyRequests == { r \in Requests : \A q \in Requests : r <= q }

SentencesOf(r) == IF r \in WordyRequests THEN Sentences ELSE { None }

\* blobs under the prefix "Dictionary/", in the store's (lexicographic) order
DictPrefix == <<"D", "i", "c", "t", "i", "o", "n", "a", "r", "y", "/">>

BlobUniverse ==
    << DictPrefix \o <<"H", "i">> \o Mp4,
       DictPrefix \o <<"a", "/", "h", "i">> \o Mp4,
       DictPrefix \o <<"h", "i">> \o Mp4,
       DictPrefix \o <<"h", "i", ".", "t", "x", "t">> >>

RECURSIVE SubSeqBy(_, _)
SubSeqBy(seq, keep) ==
    IF seq = <<>> THEN <<>>
    ELSE (IF (Len(BlobUniverse) - Len(seq) + 1) \in keep THEN <<Head(seq)>> ELSE <<>>)
         \o SubSeqBy(Tail(seq), keep)

Listings == { SubSeqBy(BlobUniverse, keep) : keep \in SUBSET (1..Len(BlobUniverse)) }

\* what the generative model may answer; Raise is any exception of the call
Raise == <<"raise">>

ModelReplies ==
    { Raise, <<"N", "O", "N", "E", " ">>, <<" ", "H", "i">>, <<" ">> }

GvcOutcomes ==
    { "exists_raises", "missing", "tempfile_raises", "download_raises",
      "download_corrupt", "decode_raises", "resize_raises", "ok" }

AssembleOutcomes == { "tempfile_raises", "concat_raises", "encode_raises", "ok" }

SendOutcomes == { "send_raises", "ok" }

\* ---------------------------------------------------------------- state
VARIABLES
    bucket,               \* TRUE: storage.bucket() succeeded; FALSE: bucket = None
    has_available_words,  \* hasattr(app, 'available_words')
    available_words,      \* app.available_words
    fs,                   \* temporary files present on the filesystem
    listings,             \* observation: bucket.list_blobs calls started so far
    rq                    \* per request: position and locals of its handlers

vars == <<bucket, has_available_words, available_words, fs, listings, rq>>

NoClip == [word |-> None, tok |-> 0]

NoStatus == [code |-> 0, body |-> "none"]

NoCall == [word |-> None, catalog |-> <<>>, calls |-> 0, ret |-> None]

IdleRequest ==
    [ pc |-> "idle", sentence |-> None, words |-> <<>>, i |-> 1,
      final_words |-> <<>>, j |-> 1, clips |-> <<>>,
      temp_file_path |-> None, clip_ret |-> NoClip,
      temp_output_path |-> None, status |-> NoStatus,
      \* observations, not program variables
      ready |-> FALSE, origin |-> <<>>, fate |-> <<>>,
      call |-> NoCall, raised |-> FALSE, sent |-> FALSE ]

Init ==
    /\ bucket \in BOOLEAN
    /\ has_available_words = FALSE
    /\ available_words = <<>>
    /\ fs = {}
    /\ listings = 0
    /\ rq = [r \in Requests |-> IdleRequest]

\* ---------------------------------------------------------------- catalog
\* [b.name.split("/")[-1].replace(".mp4", "") for b in blobs if b.name.endswith('.mp4')]
VideoNames(blobs) ==
    LET mp4s == SelectSeq(blobs, LAMBDA n : EndsWith(n, Mp4))
    IN  [k \in 1..Len(mp4s) |-> RemoveAll(LastComponent(mp4s[k], <<>>), Mp4)]

\* @app.before_request, line 57: the populate-if-absent test
BeforeRequest(r, s) ==
    /\ rq[r].pc = "idle"
    /\ LET populate == ~has_available_words /\ bucket
       IN  /\ rq' = [rq EXCEPT ![r].sentence = s,
                               ![r].pc = IF populate THEN "listing" ELSE "route"]
           /\ listings' = IF populate THEN listings + 1 ELSE listings
    /\ UNCHANGED <<bucket, has_available_words, available_words, fs>>

\* lines 58-66: the listing answers (or raises) and the result is assigned
ListBlobs(r, blobs, ok) ==
    /\ rq[r].pc = "listing"
    /\ has_available_words' = TRUE
    /\ available_words' = IF ok THEN VideoNames(blobs) ELSE <<>>
    /\ rq' = [rq EXCEPT ![r].pc = "route"]
    /\ UNCHANGED <<bucket, fs, listings>>

\* ---------------------------------------------------------------- resolver
FindSimilarWord(word, catalog, reply) ==
    LET w == Lower(word)
    IN  IF Contains(catalog, w) THEN [ret |-> w, calls |-> 0]
        ELSE IF reply = Raise THEN [ret |-> None, calls |-> 1]
        ELSE LET suggested == Lower(Strip(reply))
             IN  IF suggested = <<"n", "o", "n", "e">>
                 THEN [ret |-> None, calls |-> 1]
                 ELSE [ret |-> suggested, calls |-> 1]

\* ---------------------------------------------------------------- endpoint
CatalogReady == bucket /\ has_available_words /\ available_words # <<>>

Returns(req, code, body) ==
    [req EXCEPT !.status = [code |-> code, body |-> body], !.pc = "responded"]

RouteNoEmptyCheck(r) ==
    /\ rq[r].pc = "route"
    /\ LET req == [rq[r] EXCEPT !.ready = CatalogReady]
       IN  rq' = [rq EXCEPT ![r] =
                IF ~Truthy(req.sentence) THEN Returns(req, 400, "missing")
                ELSE IF ~bucket \/ ~has_available_words
                     THEN Returns(req, 503, "notready")
                ELSE [req EXCEPT !.words = Split(Lower(req.sentence)),
                                 !.pc = "resolve"]]
    /\ UNCHANGED <<bucket, has_available_words, available_words, fs, listings>>

RouteChecksCatalogFirst(r) ==
    /\ rq[r].pc = "route"
    /\ LET req == [rq[r] EXCEPT !.ready = CatalogReady]
       IN  rq' = [rq EXCEPT ![r] =
                IF ~bucket \/ ~has_available_words \/ available_words = <<>>
                THEN Returns(req, 503, "notready")
                ELSE IF ~Truthy(req.sentence) THEN Returns(req, 400, "missing")
                ELSE [req EXCEPT !.words = Split(Lower(req.sentence)),
                                 !.pc = "resolve"]]
    /\ UNCHANGED <<bucket, has_available_words, available_words, fs, listings>>

\* lines 132-140
Route(r) ==
    /\ rq[r].pc = "route"
    /\ LET req == [rq[r] EXCEPT !.ready = CatalogReady]
       IN  rq' = [rq EXCEPT ![r] =
                IF ~Truthy(req.sentence) THEN Returns(req, 400, "missing")
                ELSE IF ~bucket \/ ~has_available_words \/ available_words = <<>>
                     THEN Returns(req, 503, "notready")
                ELSE [req EXCEPT !.words = Split(Lower(req.sentence)),
                                 !.pc = "resolve"]]
    /\ UNCHANGED <<bucket, has_available_words, available_words, fs, listings>>

ResolvePrepends(r, reply) ==
    /\ rq[r].pc = "resolve"
    /\ rq[r].i <= Len(rq[r].words)
    /\ LET req  == rq[r]
           word == req.words[req.i]
           res  == FindSimilarWord(word, available_words, reply)
           hit  == Truthy(res.ret)
       IN  rq' = [rq EXCEPT ![r] =
                [req EXCEPT
                   !.final_words = IF hit THEN <<res.ret>> \o @ ELSE @,
                   !.origin = IF hit THEN <<req.i>> \o @ ELSE @,
                   !.fate = Append(@, [res |-> res.ret, got |-> FALSE]),
                   !.call = [word |-> word, catalog |-> available_words,
                             calls |-> res.calls, ret |-> res.ret],
                   !.i = @ + 1]]
    /\ UNCHANGED <<bucket, has_available_words, available_words, fs, listings>>

\* lines 144-149: one iteration of the loop over words
Resolve(r, reply) ==
    /\ rq[r].pc = "resolve"
    /\ rq[r].i <= Len(rq[r].words)
    /\ LET req  == rq[r]
           word == req.words[req.i]
           res  == FindSimilarWord(word, available_words, reply)
           hit  == Truthy(res.ret)
       IN  rq' = [rq EXCEPT ![r] =
                [req EXCEPT
                   !.final_words = IF hit THEN Append(@, res.ret) ELSE @,
                   !.origin = IF hit THEN Append(@, req.i) ELSE @,
                   !.fate = Append(@, [res |-> res.ret, got |-> FALSE]),
                   !.call = [word |-> word, catalog |-> available_words,
                             calls |-> res.calls, ret |-> res.ret],
                   !.i = @ + 1]]
    /\ UNCHANGED <<bucket, has_available_words, available_words, fs, listings>>

\* lines 151-154
AfterResolve(r) ==
    /\ rq[r].pc = "resolve"
    /\ rq[r].i > Len(rq[r].words)
    /\ rq' = [rq EXCEPT ![r] =
                IF rq[r].final_words = <<>> THEN Returns(rq[r], 404, "nowords")
                ELSE [rq[r] EXCEPT !.pc = "fetch"]]
    /\ UNCHANGED <<bucket, has_available_words, available_words, fs, listings>>

\* ---------------------------------------------------------------- temp files
\* tempfile.NamedTemporaryFile(delete=False): a name no existing file has.  The
\* name carries the request that created the file.
FileNames == 1..(MaxTokens + 1)

NamedTemporaryFile(r) ==
    <<r, CHOOSE k \in FileNames :
            /\ <<r, k>> \notin fs
            /\ \A m \in 1..(k - 1) : <<r, m>> \in fs>>

\* ---------------------------------------------------------------- clip fetcher
\* lines 99-116: the try body of get_video_clip up to its return or except
GvcTry(r, outcome) ==
    /\ rq[r].pc = "fetch"
    /\ rq[r].j <= Len(rq[r].final_words)
    /\ LET req     == rq[r]
           created == outcome \notin {"exists_raises", "missing", "tempfile_raises"}
           path    == NamedTemporaryFile(r)
       IN  /\ fs' = IF created /\ outcome # "download_corrupt" THEN fs \cup {path} ELSE fs
           /\ rq' = [rq EXCEPT ![r] =
                [req EXCEPT
                   !.temp_file_path = IF created THEN path ELSE None,
                   !.clip_ret = IF outcome = "ok"
                                THEN [word |-> req.final_words[req.j],
                                      tok |-> req.origin[req.j]]
                                ELSE NoClip,
                   !.pc = "gvc_finally"]]
    /\ UNCHANGED <<bucket, has_available_words, available_words, listings>>

GvcFinallyOnlyOnFailure(r) ==
    /\ rq[r].pc = "gvc_finally"
    /\ LET req == rq[r]
       IN  /\ fs' = IF req.clip_ret = NoClip /\ req.temp_file_path # None
                       /\ req.temp_file_path \in fs
                    THEN fs \ {req.temp_file_path} ELSE fs
           /\ rq' = [rq EXCEPT ![r] =
                [req EXCEPT
                   !.clips = Append(@, req.clip_ret),
                   !.fate = IF req.clip_ret # NoClip
                            THEN [@ EXCEPT ![req.origin[req.j]].got = TRUE] ELSE @,
                   !.temp_file_path = None,
                   !.clip_ret = NoClip,
                   !.j = @ + 1,
                   !.pc = "fetch"]]
    /\ UNCHANGED <<bucket, has_available_words, available_words, listings>>

\* lines 117-119, then the value lands in the list of line 157
GvcFinally(r) ==
    /\ rq[r].pc = "gvc_finally"
    /\ LET req == rq[r]
       IN  /\ fs' = IF req.temp_file_path # None /\ req.temp_file_path \in fs
                    THEN fs \ {req.temp_file_path} ELSE fs
           /\ rq' = [rq EXCEPT ![r] =
                [req EXCEPT
                   !.clips = Append(@, req.clip_ret),
                   !.fate = IF req.clip_ret # NoClip
                            THEN [@ EXCEPT ![req.origin[req.j]].got = TRUE] ELSE @,
                   !.temp_file_path = None,
                   !.clip_ret = NoClip,
                   !.j = @ + 1,
                   !.pc = "fetch"]]
    /\ UNCHANGED <<bucket, has_available_words, available_words, listings>>

\* lines 158-161
FilterClips(r) ==
    /\ rq[r].pc = "fetch"
    /\ rq[r].j > Len(rq[r].final_words)
    /\ LET kept == SelectSeq(rq[r].clips, LAMBDA c : c # NoClip)
           req  == [rq[r] EXCEPT !.clips = kept]
       IN  rq' = [rq EXCEPT ![r] =
                IF kept = <<>> THEN Returns(req, 500, "noclips")
                ELSE [req EXCEPT !.pc = "assemble"]]
    /\ UNCHANGED <<bucket, has_available_words, available_words, fs, listings>>

\* ---------------------------------------------------------------- assembly
Fails(req) ==
    [req EXCEPT !.status = [code |-> 500, body |-> "exception"],
                !.raised = TRUE, !.pc = "finally"]

\* lines 164-176: temporary output file, concatenate, encode
Assemble(r, outcome) ==
    /\ rq[r].pc = "assemble"
    /\ LET req     == rq[r]
           created == outcome # "tempfile_raises"
           path    == NamedTemporaryFile(r)
           opened  == [req EXCEPT
                         !.temp_output_path = IF created THEN path ELSE None]
       IN  /\ fs' = IF created THEN fs \cup {path} ELSE fs
           /\ rq' = [rq EXCEPT ![r] =
                IF outcome = "ok" THEN [opened EXCEPT !.pc = "send"]
                ELSE Fails(opened)]
    /\ UNCHANGED <<bucket, has_available_words, available_words, listings>>

\* lines 179-187: send_file builds the response object, or raises
SendFile(r, outcome) ==
    /\ rq[r].pc = "send"
    /\ rq' = [rq EXCEPT ![r] =
                IF outcome = "ok"
                THEN [rq[r] EXCEPT !.status = [code |-> 200, body |-> "video"],
                                   !.pc = "finally"]
                ELSE Fails(rq[r])]
    /\ UNCHANGED <<bucket, has_available_words, available_words, fs, listings>>

\* lines 188-191, after which the view function has returned
Finally(r) ==
    /\ rq[r].pc = "finally"
    /\ LET p == rq[r].temp_output_path
       IN  fs' = IF p # None /\ p \in fs THEN fs \ {p} ELSE fs
    /\ rq' = [rq EXCEPT ![r].pc = "responded"]
    /\ UNCHANGED <<bucket, has_available_words, available_words, listings>>

\* the server writes the returned response's body to the caller
Transfer(r) ==
    /\ rq[r].pc = "responded"
    /\ rq' = [rq EXCEPT ![r].sent = TRUE, ![r].pc = "done"]
    /\ UNCHANGED <<bucket, has_available_words, available_words, fs, listings>>

Next ==
    \E r \in Requests :
        \/ \E s \in SentencesOf(r) : BeforeRequest(r, s)
        \/ \E blobs \in Listings, ok \in BOOLEAN : ListBlobs(r, blobs, ok)
        \/ Route(r)
        \/ \E reply \in ModelReplies : Resolve(r, reply)
        \/ AfterResolve(r)
        \/ \E o \in GvcOutcomes : GvcTry(r, o)
        \/ GvcFinally(r)
        \/ FilterClips(r)
        \/ \E o \in AssembleOutcomes : Assemble(r, o)
        \/ \E o \in SendOutcomes : SendFile(r, o)
        \/ Finally(r)
        \/ Transfer(r)

Spec == Init /\ [][Next]_vars

\* ================================================================ claims
Returned(r) == rq[r].pc \in {"responded", "done"}

OwnFiles(r) == { f \in fs : f[1] = r }

\* C1: for a word that is not in the catalog, find_similar_word returns a
\* member of the catalog or None, never a string outside the catalog.
C1_ReturnsCatalogMemberOrNone ==
    \A r \in Requests :
        LET c == rq[r].call
        IN  (c.word # None /\ ~Contains(c.catalog, c.word))
                => (c.ret = None \/ Contains(c.catalog, c.ret))

\* C2: whenever the catalog is empty or absent or the bucket is missing when
\* the endpoint runs, the request returns 503, whatever its parameters are,
\* a missing or empty 'sentence' included.
C2_NotReadyAlways503 ==
    \A r \in Requests :
        (Returned(r) /\ ~rq[r].ready) => rq[r].status.code = 503

\* C2 as amended: with the catalog empty or absent or the bucket missing, a
\* request with a non-empty 'sentence' returns 503 and a request with a
\* missing or empty 'sentence' returns 400.
C2_NotReady503Or400 ==
    \A r \in Requests :
        (Returned(r) /\ ~rq[r].ready)
            => rq[r].status = IF Truthy(rq[r].sentence)
                              THEN [code |-> 503, body |-> "notready"]
                              ELSE [code |-> 400, body |-> "missing"]

C2_Witness ==
    \E r \in Requests :
        /\ Returned(r) /\ ~rq[r].ready /\ Truthy(rq[r].sentence)
        /\ has_available_words /\ available_words = <<>>
        /\ rq[r].status.code = 503

\* C3: over any interleaving of requests the bucket listing is started by one
\* request only, the first that observes the catalog absent.
C3_ListedOnce == listings <= 1

\* C4: once app.available_words has been assigned, no later step of any
\* request changes its value.
C4_CatalogNeverReassigned ==
    [][has_available_words => available_words' = available_words]_vars

\* C5: the temporary output file is deleted only after the response body has
\* been transferred to the caller.
C5_DeletedOnlyAfterTransfer ==
    \A r \in Requests :
        (rq[r].temp_output_path # None /\ rq[r].temp_output_path \notin fs)
            => rq[r].sent

\* C6: once a request has completed, whatever succeeded or failed on the way,
\* no temporary file it created (per-word download file, output file) exists.
C6_NoTempFileLeft ==
    \A r \in Requests : Returned(r) => OwnFiles(r) = {}

C6_Witness ==
    \E r \in Requests :
        /\ Returned(r) /\ rq[r].raised
        /\ rq[r].temp_output_path # None /\ rq[r].clips # <<>>

\* C7: the catalog that list_videos_in_firebase stores holds only lowercase
\* strings and holds no string twice.
C7_CatalogLowercaseDistinct ==
    has_available_words =>
        /\ \A k \in 1..Len(available_words) :
              available_words[k] = Lower(available_words[k])
        /\ \A k, l \in 1..Len(available_words) :
              k # l => available_words[k] # available_words[l]

\* C8: if the catalog contains the word under case-insensitive comparison,
\* find_similar_word returns that word and makes no model call; exactly one
\* model call is made when, and only when, the word is not present.
C8_DirectHitMakesNoCall ==
    \A r \in Requests :
        LET c == rq[r].call
            present == \E k \in 1..Len(c.catalog) :
                          Lower(c.catalog[k]) = Lower(c.word)
        IN  c.word # None =>
                /\ present => (c.ret = Lower(c.word) /\ c.calls = 0)
                /\ c.calls = 1 <=> ~present

\* C9: every request ends in the outcome fixed by the first failing check, in
\* the order 400 (sentence absent or empty), 503 (catalog not ready), 404
\* (resolved word list empty), 500 (no clip fetched), 500 with the exception
\* text (assembly or send raised), else 200; 404 exactly when the first two
\* checks pass and no token resolved; 200 only with at least one clip.
C9_Expected(r) ==
    IF ~Truthy(rq[r].sentence) THEN [code |-> 400, body |-> "missing"]
    ELSE IF ~rq[r].ready THEN [code |-> 503, body |-> "notready"]
    ELSE IF \A t \in 1..Len(rq[r].fate) : ~Truthy(rq[r].fate[t].res)
         THEN [code |-> 404, body |-> "nowords"]
    ELSE IF \A t \in 1..Len(rq[r].fate) : ~rq[r].fate[t].got
         THEN [code |-> 500, body |-> "noclips"]
    ELSE IF rq[r].raised THEN [code |-> 500, body |-> "exception"]
    ELSE [code |-> 200, body |-> "video"]

C9_OutcomeByFirstFailingCheck ==
    \A r \in Requests :
        Returned(r) =>
            /\ rq[r].status = C9_Expected(r)
            /\ rq[r].status.code = 404 <=>
                  (Truthy(rq[r].sentence) /\ rq[r].ready /\ rq[r].final_words = <<>>)
            /\ rq[r].status.code = 200 => rq[r].clips # <<>>

C9_Witness ==
    \E r \in Requests :
        /\ Returned(r) /\ rq[r].status.code = 404
        /\ Len(rq[r].words) = MaxTokens

\* C10: the clips handed to concatenation are one clip per token that was both
\* resolved and fetched, in token order, repeated tokens giving repeated clips;
\* a token that fails to resolve or fetch is dropped and the request goes on
\* to assembly while at least one clip remains.
C10_ClipsOf(r) ==
    LET c == rq[r].clips
        f == rq[r].fate
    IN  /\ Len(f) = Len(rq[r].words)
        /\ \A k \in 1..Len(c) :
              /\ c[k].tok \in 1..Len(f)
              /\ f[c[k].tok].got
              /\ c[k].word = f[c[k].tok].res
        /\ \A k, l \in 1..Len(c) : k < l => c[k].tok < c[l].tok
        /\ \A t \in 1..Len(f) :
              (Truthy(f[t].res) /\ f[t].got) => \E k \in 1..Len(c) : c[k].tok = t

C10_ClipsInTokenOrder ==
    \A r \in Requests :
        /\ rq[r].pc \in {"assemble", "send", "finally"} => C10_ClipsOf(r)
        /\ (Returned(r) /\ \E t \in 1..Len(rq[r].fate) : rq[r].fate[t].got)
              => (C10_ClipsOf(r) /\ rq[r].status.body \in {"video", "exception"})

C10_Witness ==
    \E r \in Requests :
        /\ rq[r].pc = "assemble"
        /\ Len(rq[r].clips) >= 2
====
